---- MODULE Spec2Model ----
(***************************************************************************)
(* A model of Vortex's ProcessMonitor                                      *)
(* (src/extensions/gamemode_management/util/ProcessMonitor.ts): the poll   *)
(* scheduler (start / end / check), the process enumerators, the ancestry  *)
(* walk isChildProcess and the per-target decision procedure update.       *)
(*                                                                         *)
(* Strings are sequences of one-character strings, so that toLowerCase and *)
(* basename are computed and not assumed.                                  *)
(***************************************************************************)
EXTENDS Integers, Sequences, FiniteSets, TLC

VARIABLES
  mImpl,         \* the enumerator chosen by the constructor: "win32", "linux", "none"
  mActive,       \* ProcessMonitor.mActive
  mTimer,        \* ProcessMonitor.mTimer: 0 is undefined, else a timer handle
  mWindow,       \* ProcessMonitor.mWindow: "undefined" or "window"
  remote,        \* whether electron's remote is defined in this process
  timers,        \* the event loop's pending timeouts: handle -> delay in ms
  toolsRunning,  \* the store's session.base.toolsRunning: exeId -> entry
  config,        \* the store's game mode: gameExe, gamePath, discovered tools
  pc,            \* where the one thread of control is
  os,            \* what the operating system answers to the running check
  processes,     \* doCheck's processes
  state,         \* doCheck's state (toolsRunning as read at line 165)
  targets,       \* the update calls doCheck still has to make, in order
  emitted,       \* the actions dispatched by the running (or last) check
  inspected,     \* the pids handed to GetModuleList by the running (or last) check
  tick,          \* what the last timer callback did
  lastCall,      \* the last of start() and end() to have been called: "none", "start", "end"
  walk           \* one ancestry walk, call by call; the pids the last update call walked from

vars == << mImpl, mActive, mTimer, mWindow, remote, timers, toolsRunning, config,
           pc, os, processes, state, targets, emitted, inspected, tick, lastCall, walk >>

----------------------------------------------------------------------------
(* Bounds *)

\* Process ids are 1..MaxPid; process.pid of the monitor is vortexPid.
MaxPid == 3

\* At most this many timeouts are pending at once.
MaxTimers == 2

vortexPid == 1

Pids == 1..MaxPid

----------------------------------------------------------------------------
(* Strings *)

Undefined == << "undefined" >>

toLowerCaseChar(c) ==
  CASE c = "A" -> "a"
    [] c = "B" -> "b"
    [] c = "T" -> "t"
    [] c = "U" -> "u"
    [] OTHER -> c

toLowerCase(s) == [i \in 1..Len(s) |-> toLowerCaseChar(s[i])]

\* path.join of a directory and a file name.
join(dir, file) == dir \o << "/" >> \o file

\* path.basename: what follows the last separator.
basename(p) ==
  LET seps == {i \in 1..Len(p) : p[i] = "/"}
      last == IF seps = {} THEN 0 ELSE CHOOSE i \in seps : \A j \in seps : j <= i
  IN  SubSeq(p, last + 1, Len(p))

\* reducers/session makeExeId: the lower-cased file name of a path.
makeExeId(exePath) == toLowerCase(basename(exePath))

----------------------------------------------------------------------------
(* The process snapshot and its indices *)

UndefinedProc == [undefined |-> TRUE]

\* The null getProcessInfo returns for a process that is gone (ENOENT).
Null == [null |-> TRUE]

IProcessInfo(pid, ppid, exe) ==
  [processID |-> pid, parentProcessID |-> ppid, exeFile |-> exe]

\* byPid[pid] of doCheck: the last record of the list with that pid.
byPid(procs, pid) ==
  LET at == {i \in 1..Len(procs) : procs[i].processID = pid}
  IN  IF at = {} THEN UndefinedProc
      ELSE procs[CHOOSE i \in at : \A j \in at : j <= i]

\* byName[exeId] of doCheck: the records with that lower-cased name, in list
\* order; the empty sequence stands for undefined (setdefault never leaves an
\* empty list behind).
byName(procs, exeId) ==
  SelectSeq(procs, LAMBDA e : toLowerCase(e.exeFile) = exeId)

----------------------------------------------------------------------------
(* The ancestry walk *)

isChildProcess_NoCycleGuard(procs, proc, visited) ==
  IF proc = UndefinedProc THEN [done |-> TRUE, result |-> FALSE, why |-> "undefined"]
  ELSE IF proc.parentProcessID = 0
    THEN [done |-> TRUE, result |-> FALSE, why |-> "noparent"]
  ELSE IF proc.parentProcessID = vortexPid
    THEN [done |-> TRUE, result |-> TRUE, why |-> "root"]
  ELSE [done |-> FALSE, proc |-> byPid(procs, proc.parentProcessID),
        visited |-> visited \cup {proc.parentProcessID}]

\* isChildProcess without the recursive call: only a direct child of the
\* monitor is accepted.
isChildProcess_DirectChildOnly(procs, proc, visited) ==
  IF proc = UndefinedProc THEN [done |-> TRUE, result |-> FALSE, why |-> "undefined"]
  ELSE IF proc.parentProcessID = 0
    THEN [done |-> TRUE, result |-> FALSE, why |-> "noparent"]
  ELSE IF proc.parentProcessID = vortexPid
    THEN [done |-> TRUE, result |-> TRUE, why |-> "root"]
  ELSE [done |-> TRUE, result |-> FALSE, why |-> "cycle"]

\* One call of isChildProcess: either it returns (done) or it calls itself on
\* byPid[proc.parentProcessID] with the parent added to visited.
isChildProcessCall(procs, proc, visited) ==
  IF proc = UndefinedProc THEN [done |-> TRUE, result |-> FALSE, why |-> "undefined"]
  ELSE IF proc.parentProcessID = 0
    THEN [done |-> TRUE, result |-> FALSE, why |-> "noparent"]
  ELSE IF proc.parentProcessID \in visited
    THEN [done |-> TRUE, result |-> FALSE, why |-> "cycle"]
  ELSE IF proc.parentProcessID = vortexPid
    THEN [done |-> TRUE, result |-> TRUE, why |-> "root"]
  ELSE [done |-> FALSE, proc |-> byPid(procs, proc.parentProcessID),
        visited |-> visited \cup {proc.parentProcessID}]

\* isChildProcess(proc, visited) run to its result.
RECURSIVE isChildProcess(_, _, _)
isChildProcess(procs, proc, visited) ==
  LET c == isChildProcessCall(procs, proc, visited)
  IN  IF c.done THEN c.result ELSE isChildProcess(procs, c.proc, c.visited)

----------------------------------------------------------------------------
(* The store: session.base.toolsRunning and the two actions *)

UndefinedEntry == [undefined |-> TRUE]

\* actions setToolPid(exePath, pid, exclusive) and setToolStopped(exePath).
setToolPid(exePath, pid, exclusive) ==
  [type |-> "SET_TOOL_RUNNING", exePath |-> exePath, pid |-> pid, exclusive |-> exclusive]

setToolStopped(exePath) ==
  [type |-> "SET_TOOL_STOPPED", exePath |-> exePath, pid |-> 0, exclusive |-> FALSE]

\* The session reducer: Started records {exePath, pid, exclusive} under the
\* path's exeId, Stopped clears what is recorded under it.
reduce(tr, action) ==
  IF action.type = "SET_TOOL_RUNNING"
  THEN [tr EXCEPT ![makeExeId(action.exePath)] =
          [exePath |-> action.exePath, pid |-> action.pid, exclusive |-> action.exclusive]]
  ELSE [tr EXCEPT ![makeExeId(action.exePath)] = UndefinedEntry]

----------------------------------------------------------------------------
(* The per-target decision: update(exePath, exclusive, considerDetached) *)

\* The comparison of lines 221-222 without its second conjunct: any process
\* with a module list is taken.
moduleMatches_AnyModule(modules, exePath) == Len(modules) > 0

\* The comparison of lines 221-222 with an empty module list taken for a match.
moduleMatches_EmptyConfirms(modules, exePath) ==
  Len(modules) = 0 \/ toLowerCase(modules[1]) = toLowerCase(exePath)

\* modules.length > 0 && modules[0].exePath.toLowerCase() === exePath.toLowerCase()
moduleMatches(modules, exePath) ==
  Len(modules) > 0 /\ toLowerCase(modules[1]) = toLowerCase(exePath)

\* Line 215 with the filter left out: every same-named process is a candidate.
candidates_NoAncestryFilter(procs, exeRunning, considerDetached) == exeRunning

\* The candidates of line 215: all same-named processes, or those among them
\* that descend from the monitor.
candidates(procs, exeRunning, considerDetached) ==
  IF considerDetached THEN exeRunning
  ELSE SelectSeq(exeRunning, LAMBDA proc : isChildProcess(procs, proc, {}))

\* GetModuleList's answer for the i-th candidate; find asks the candidates in
\* order and stops at the first match, so later ones are never asked.
answerFor(answers, i) == IF i <= Len(answers) THEN answers[i] ELSE << >>

\* candidates.find(...) returning the last candidate that matches instead of
\* the first.
findMatch_Last(cands, answers, exePath) ==
  LET hits == {i \in 1..Len(cands) : moduleMatches(answerFor(answers, i), exePath)}
  IN  IF hits = {} THEN 0 ELSE CHOOSE i \in hits : \A j \in hits : j <= i

\* candidates.find(...): the index of the first candidate whose module list
\* matches, 0 when there is none.
findMatch(cands, answers, exePath) ==
  LET hits == {i \in 1..Len(cands) : moduleMatches(answerFor(answers, i), exePath)}
  IN  IF hits = {} THEN 0 ELSE CHOOSE i \in hits : \A j \in hits : i <= j

\* update without the steady-state test of lines 207-210.
stillRunning_Never(st, procs, exeId) == FALSE

\* Lines 207-210: the tool is known and its process is still there.
stillRunning(st, procs, exeId) ==
  st[exeId] # UndefinedEntry /\ byPid(procs, st[exeId].pid) # UndefinedProc

\* The filter of line 217 run before the steady-state test of lines 207-210.
walked_BeforeSteadyTest(target, st, procs) ==
  LET exeRunning == byName(procs, makeExeId(target.exePath))
  IN  IF exeRunning = << >> \/ target.considerDetached
      THEN << >>
      ELSE [i \in 1..Len(exeRunning) |-> exeRunning[i].processID]

\* The pids one call of update starts an ancestry walk from: none when it
\* returns at lines 199-205 or 207-210 or when detached matches are allowed,
\* else every same-named process (line 217).
walked(target, st, procs) ==
  LET exeRunning == byName(procs, makeExeId(target.exePath))
  IN  IF exeRunning = << >>
         \/ stillRunning(st, procs, makeExeId(target.exePath))
         \/ target.considerDetached
      THEN << >>
      ELSE [i \in 1..Len(exeRunning) |-> exeRunning[i].processID]

\* update with a Stopped dispatched before the Started that replaces a stale
\* entry.
update_StopBeforeStart(target, st, procs, answers) ==
  LET exePath == target.exePath
      exeId == makeExeId(exePath)
      knownRunning == st[exeId]
      exeRunning == byName(procs, exeId)
      cands == candidates(procs, exeRunning, target.considerDetached)
      m == findMatch(cands, answers, exePath)
      asked == IF m = 0 THEN Len(cands) ELSE m
  IN  IF exeRunning = << >>
      THEN [dispatch |-> IF knownRunning # UndefinedEntry
                         THEN << setToolStopped(exePath) >> ELSE << >>,
            calls |-> << >>]
      ELSE IF stillRunning(st, procs, exeId)
      THEN [dispatch |-> << >>, calls |-> << >>]
      ELSE [dispatch |->
              (IF knownRunning # UndefinedEntry THEN << setToolStopped(exePath) >> ELSE << >>)
              \o (IF m # 0
                  THEN << setToolPid(exePath, cands[m].processID, target.exclusive) >>
                  ELSE << >>),
            calls |-> [i \in 1..asked |->
                         [pid |-> cands[i].processID, modules |-> answerFor(answers, i)]]]

\* update without the knownRunning test of line 201: Stopped is dispatched
\* whenever no same-named process runs.
update_StopUnknown(target, st, procs, answers) ==
  LET exePath == target.exePath
      exeId == makeExeId(exePath)
      knownRunning == st[exeId]
      exeRunning == byName(procs, exeId)
      cands == candidates(procs, exeRunning, target.considerDetached)
      m == findMatch(cands, answers, exePath)
      asked == IF m = 0 THEN Len(cands) ELSE m
  IN  IF exeRunning = << >>
      THEN [dispatch |-> << setToolStopped(exePath) >>, calls |-> << >>]
      ELSE IF stillRunning(st, procs, exeId)
      THEN [dispatch |-> << >>, calls |-> << >>]
      ELSE [dispatch |->
              IF m # 0 THEN << setToolPid(exePath, cands[m].processID, target.exclusive) >>
              ELSE IF knownRunning # UndefinedEntry THEN << setToolStopped(exePath) >>
              ELSE << >>,
            calls |-> [i \in 1..asked |->
                         [pid |-> cands[i].processID, modules |-> answerFor(answers, i)]]]

\* update without the dispatch of lines 201-203: a target with no same-named
\* process is passed over even when an entry is known.
update_AbsentSilent(target, st, procs, answers) ==
  LET exePath == target.exePath
      exeId == makeExeId(exePath)
      knownRunning == st[exeId]
      exeRunning == byName(procs, exeId)
      cands == candidates(procs, exeRunning, target.considerDetached)
      m == findMatch(cands, answers, exePath)
      asked == IF m = 0 THEN Len(cands) ELSE m
  IN  IF exeRunning = << >>
      THEN [dispatch |-> << >>, calls |-> << >>]
      ELSE IF stillRunning(st, procs, exeId)
      THEN [dispatch |-> << >>, calls |-> << >>]
      ELSE [dispatch |->
              IF m # 0 THEN << setToolPid(exePath, cands[m].processID, target.exclusive) >>
              ELSE IF knownRunning # UndefinedEntry THEN << setToolStopped(exePath) >>
              ELSE << >>,
            calls |-> [i \in 1..asked |->
                         [pid |-> cands[i].processID, modules |-> answerFor(answers, i)]]]

\* update without the knownRunning test of line 227: Stopped is dispatched
\* whenever no candidate is confirmed.
update_StopOnNoMatch(target, st, procs, answers) ==
  LET exePath == target.exePath
      exeId == makeExeId(exePath)
      knownRunning == st[exeId]
      exeRunning == byName(procs, exeId)
      cands == candidates(procs, exeRunning, target.considerDetached)
      m == findMatch(cands, answers, exePath)
      asked == IF m = 0 THEN Len(cands) ELSE m
  IN  IF exeRunning = << >>
      THEN [dispatch |-> IF knownRunning # UndefinedEntry
                         THEN << setToolStopped(exePath) >> ELSE << >>,
            calls |-> << >>]
      ELSE IF stillRunning(st, procs, exeId)
      THEN [dispatch |-> << >>, calls |-> << >>]
      ELSE [dispatch |->
              IF m # 0 THEN << setToolPid(exePath, cands[m].processID, target.exclusive) >>
              ELSE << setToolStopped(exePath) >>,
            calls |-> [i \in 1..asked |->
                         [pid |-> cands[i].processID, modules |-> answerFor(answers, i)]]]

\* update with the steady-state test of lines 207-210 made before the test
\* of lines 199-205.
update_SteadyFirst(target, st, procs, answers) ==
  LET exePath == target.exePath
      exeId == makeExeId(exePath)
      knownRunning == st[exeId]
      exeRunning == byName(procs, exeId)
      cands == candidates(procs, exeRunning, target.considerDetached)
      m == findMatch(cands, answers, exePath)
      asked == IF m = 0 THEN Len(cands) ELSE m
  IN  IF stillRunning(st, procs, exeId)
      THEN [dispatch |-> << >>, calls |-> << >>]
      ELSE IF exeRunning = << >>
      THEN [dispatch |-> IF knownRunning # UndefinedEntry
                         THEN << setToolStopped(exePath) >> ELSE << >>,
            calls |-> << >>]
      ELSE [dispatch |->
              IF m # 0 THEN << setToolPid(exePath, cands[m].processID, target.exclusive) >>
              ELSE IF knownRunning # UndefinedEntry THEN << setToolStopped(exePath) >>
              ELSE << >>,
            calls |-> [i \in 1..asked |->
                         [pid |-> cands[i].processID, modules |-> answerFor(answers, i)]]]

\* What one call of update dispatches (at most one action) and the
\* GetModuleList calls it makes, in order.
update(target, st, procs, answers) ==
  LET exePath == target.exePath
      exeId == makeExeId(exePath)
      knownRunning == st[exeId]
      exeRunning == byName(procs, exeId)
      cands == candidates(procs, exeRunning, target.considerDetached)
      m == findMatch(cands, answers, exePath)
      asked == IF m = 0 THEN Len(cands) ELSE m
  IN  IF exeRunning = << >>
      THEN [dispatch |-> IF knownRunning # UndefinedEntry
                         THEN << setToolStopped(exePath) >> ELSE << >>,
            calls |-> << >>]
      ELSE IF stillRunning(st, procs, exeId)
      THEN [dispatch |-> << >>, calls |-> << >>]
      ELSE [dispatch |->
              IF m # 0 THEN << setToolPid(exePath, cands[m].processID, target.exclusive) >>
              ELSE IF knownRunning # UndefinedEntry THEN << setToolStopped(exePath) >>
              ELSE << >>,
            calls |-> [i \in 1..asked |->
                         [pid |-> cands[i].processID, modules |-> answerFor(answers, i)]]]

\* The test of line 187 without its second disjunct: an undefined path goes
\* unnoticed.
gameUndefined_ExeOnly(cfg) == cfg.gameExe = Undefined

\* Lines 182-192 and 232-243: the update calls of one doCheck, the game first,
\* then each discovered tool that has a path; none when the game's executable
\* or path is undefined.
gameUndefined(cfg) == cfg.gameExe = Undefined \/ cfg.gamePath = Undefined

\* The update calls of doCheck with the game passed like a tool:
\* update(gameExePath, false, false).
updateCalls_GameLikeTool(cfg) ==
  IF gameUndefined(cfg) THEN << >>
  ELSE << [exePath |-> join(cfg.gamePath, cfg.gameExe), exclusive |-> FALSE,
           considerDetached |-> FALSE, tool |-> 0] >>
       \o [i \in 1..Len(SelectSeq(cfg.tools, LAMBDA t : t.path # Undefined)) |->
             LET t == SelectSeq(cfg.tools, LAMBDA u : u.path # Undefined)[i]
             IN  [exePath |-> t.path, exclusive |-> (t.exclusive = "true"),
                  considerDetached |-> FALSE, tool |-> i]]

\* The update calls of doCheck with the tools loop placed before the game.
updateCalls_ToolsFirst(cfg) ==
  IF gameUndefined(cfg) THEN << >>
  ELSE [i \in 1..Len(SelectSeq(cfg.tools, LAMBDA t : t.path # Undefined)) |->
             LET t == SelectSeq(cfg.tools, LAMBDA u : u.path # Undefined)[i]
             IN  [exePath |-> t.path, exclusive |-> (t.exclusive = "true"),
                  considerDetached |-> FALSE, tool |-> i]]
       \o << [exePath |-> join(cfg.gamePath, cfg.gameExe), exclusive |-> TRUE,
               considerDetached |-> TRUE, tool |-> 0] >>

updateCalls(cfg) ==
  IF gameUndefined(cfg) THEN << >>
  ELSE << [exePath |-> join(cfg.gamePath, cfg.gameExe), exclusive |-> TRUE,
           considerDetached |-> TRUE, tool |-> 0] >>
       \o [i \in 1..Len(SelectSeq(cfg.tools, LAMBDA t : t.path # Undefined)) |->
             LET t == SelectSeq(cfg.tools, LAMBDA u : u.path # Undefined)[i]
             IN  [exePath |-> t.path, exclusive |-> (t.exclusive = "true"),
                  considerDetached |-> FALSE, tool |-> i]]

----------------------------------------------------------------------------
(* The environment: process lists, module lists, configurations *)

ExeFiles == { << "T" >>, << "u" >> }

\* The active game: <gamePath>/<gameExe>.
GamePath == << "a" >>
GameExe == << "t" >>

\* What GetModuleList may answer: nothing, or a list whose main module is the
\* game's path in upper case, a same-named file elsewhere, or another file.
ModuleLists ==
  { << >>, << << "A", "/", "T" >> >>, << << "b", "/", "t" >> >>, << << "a", "/", "u" >> >> }

\* A discovered tool: its path may be the game's own, share the game's file
\* name, name another file, or be undefined.
ToolChoices ==
  { [path |-> << "a", "/", "t" >>, exclusive |-> "undefined"],
    [path |-> << "b", "/", "T" >>, exclusive |-> "true"],
    [path |-> << "a", "/", "u" >>, exclusive |-> "false"],
    [path |-> Undefined, exclusive |-> "true"] }

ExeIds == { << "t" >>, << "u" >> }

\* The lists of at most n records with distinct pids, in any order.
RECURSIVE ProcLists(_, _, _, _)
ProcLists(pids, ppids, exes, n) ==
  IF n = 0 THEN { << >> }
  ELSE { << >> } \cup
       UNION { { << IProcessInfo(p, pp, e) >> \o rest :
                   pp \in ppids, e \in exes,
                   rest \in ProcLists(pids \ {p}, ppids, exes, n - 1) }
               : p \in pids }

RECURSIVE ToolLists(_)
ToolLists(n) ==
  IF n = 0 THEN { << >> }
  ELSE { << >> } \cup { << t >> \o rest : t \in ToolChoices, rest \in ToolLists(n - 1) }

----------------------------------------------------------------------------
(* The enumerators *)

\* getProcessInfo: the record, null when the stat file is gone, an exception
\* on any other error.
getProcessInfo(entry) ==
  IF entry.stat = "ok" THEN [threw |-> FALSE, info |-> entry.info]
  ELSE IF entry.stat = "ENOENT" THEN [threw |-> FALSE, info |-> Null]
  ELSE [threw |-> TRUE, info |-> Null]

\* getProcessList answering an empty list where it should throw.
getProcessList_SwallowsErrors(answer) ==
  IF answer.readdir # "ok"
     \/ \E i \in 1..Len(answer.entries) : getProcessInfo(answer.entries[i]).threw
  THEN [threw |-> FALSE, list |-> << >>]
  ELSE [threw |-> FALSE,
        list |-> [i \in 1..Len(answer.entries) |-> getProcessInfo(answer.entries[i]).info]]

\* getProcessList of either implementation: it throws when the listing fails
\* or one getProcessInfo throws, else maps the entries (nulls are kept).
getProcessList(answer) ==
  IF answer.readdir # "ok"
     \/ \E i \in 1..Len(answer.entries) : getProcessInfo(answer.entries[i]).threw
  THEN [threw |-> TRUE, list |-> << >>]
  ELSE [threw |-> FALSE,
        list |-> [i \in 1..Len(answer.entries) |-> getProcessInfo(answer.entries[i]).info]]

\* Lines 155-164: the two reduce calls read proc.processID and entry.exeFile
\* of every element, which throws a TypeError on a null element.
indexThrows(list) == \E i \in 1..Len(list) : list[i] = Null

\* What the system may answer to one enumeration. The native call answers
\* records or fails; the /proc reader may also lose single entries.
Answers(impl, lists) ==
  { [readdir |-> "EIO", entries |-> << >>] } \cup
  { [readdir |-> "ok", entries |-> es] :
      es \in UNION { { [i \in 1..Len(l) |-> [stat |-> st[i], info |-> l[i]]] :
                         st \in [1..Len(l) -> IF impl = "linux"
                                              THEN {"ok", "ENOENT", "EACCES"}
                                              ELSE {"ok"}] }
                     : l \in lists } }

----------------------------------------------------------------------------
(* The scheduler: start, end, check *)

ShortDelay == 2000
LongDelay == 5000

Sched == [mActive |-> mActive, mTimer |-> mTimer, mWindow |-> mWindow, timers |-> timers]

clearTimeout(ts, h) == {t \in ts : t.handle # h}

\* The handle setTimeout returns: one no pending timeout has.
freeHandle(ts) ==
  CHOOSE h \in 1..(Cardinality(ts) + 1) :
    /\ \A t \in ts : t.handle # h
    /\ \A g \in 1..(h - 1) : \E t \in ts : t.handle = g

\* setTimeout arming nothing.
setTimeout_ArmsNothing(ts, delay) == ts

\* Every timeout armed with the baseline period, whatever was asked for.
setTimeout_AlwaysShort(ts, delay) == ts \cup { [handle |-> freeHandle(ts), delay |-> ShortDelay] }

setTimeout(ts, delay) == ts \cup { [handle |-> freeHandle(ts), delay |-> delay] }

\* start() without the mActive test of lines 107-110.
start_NoActiveTest(m) ==
  IF mImpl = "none" THEN m
  ELSE LET ts == IF m.mTimer # 0 THEN clearTimeout(m.timers, m.mTimer) ELSE m.timers
       IN  [mActive |-> TRUE,
            mTimer |-> freeHandle(ts),
            mWindow |-> IF remote THEN "window" ELSE m.mWindow,
            timers |-> setTimeout(ts, ShortDelay)]

\* start() without the mImpl test of lines 103-106.
start_NoImplTest(m) ==
  IF m.mActive THEN m
  ELSE LET ts == IF m.mTimer # 0 THEN clearTimeout(m.timers, m.mTimer) ELSE m.timers
       IN  [mActive |-> TRUE,
            mTimer |-> freeHandle(ts),
            mWindow |-> IF remote THEN "window" ELSE m.mWindow,
            timers |-> setTimeout(ts, ShortDelay)]

\* start(): nothing without an implementation or when already active; else
\* the window handle is fetched, the monitor becomes active and the first
\* tick is armed.
start(m) ==
  IF mImpl = "none" THEN m
  ELSE IF m.mActive THEN m
  ELSE LET ts == IF m.mTimer # 0 THEN clearTimeout(m.timers, m.mTimer) ELSE m.timers
       IN  [mActive |-> TRUE,
            mTimer |-> freeHandle(ts),
            mWindow |-> IF remote THEN "window" ELSE m.mWindow,
            timers |-> setTimeout(ts, ShortDelay)]

end(m) ==
  IF m.mTimer = 0 THEN m
  ELSE [m EXCEPT !.timers = clearTimeout(@, m.mTimer), !.mTimer = 0, !.mActive = FALSE]

\* What a store subscriber may call while an action is being dispatched.
Reactions == {"none", "end", "start", "endstart"}

react(m, r) ==
  CASE r = "end" -> end(m)
    [] r = "start" -> start(m)
    [] r = "endstart" -> start(end(m))
    [] OTHER -> m

NoTick == [fired |-> FALSE, active |-> FALSE, focus |-> "none", outcome |-> "none",
           armed |-> 0]

NoAnswer == [readdir |-> "none", entries |-> << >>]

\* The host calls start().
Start ==
  /\ pc = "idle"
  /\ \E m \in {start(Sched)} :
         /\ Cardinality(m.timers) <= MaxTimers
         /\ mActive' = m.mActive /\ mTimer' = m.mTimer
         /\ mWindow' = m.mWindow /\ timers' = m.timers
  /\ tick' = NoTick
  /\ lastCall' = "start"
  /\ UNCHANGED << mImpl, remote, toolsRunning, config, pc, os, processes, state,
                  targets, emitted, inspected, walk >>

\* The host calls end().
End ==
  /\ pc = "idle"
  /\ \E m \in {end(Sched)} :
         /\ mActive' = m.mActive /\ mTimer' = m.mTimer
         /\ mWindow' = m.mWindow /\ timers' = m.timers
  /\ tick' = NoTick
  /\ lastCall' = "end"
  /\ UNCHANGED << mImpl, remote, toolsRunning, config, pc, os, processes, state,
                  targets, emitted, inspected, walk >>

\* The lists the scheduler's ticks enumerate: at most one process.
SchedLists == ProcLists({MaxPid}, {0, vortexPid}, ExeFiles, 1)

\* check() with doCheck run whatever the focus.
checkSkips_Never(focus) == FALSE

\* Line 142 negated: the tick skips doCheck when there is a window and it is
\* not focused.
checkSkips(focus) == focus = "unfocused"

\* Line 138: the callback returns at once when the monitor is not active.
checkReturnsEarly(active) == ~active

\* A pending timeout fires: check() up to the first update call of doCheck.
\* The timeout armed at line 148 is a new object, armed while the one that
\* is firing still exists: the two have different handles.
Fire ==
  /\ pc = "idle"
  /\ \E t \in timers :
       LET ts == timers \ {t} IN
       IF checkReturnsEarly(mActive)
       THEN /\ timers' = ts
            /\ tick' = [fired |-> TRUE, active |-> FALSE, focus |-> "none",
                        outcome |-> "inactive", armed |-> 0]
            /\ UNCHANGED << mTimer, pc, os, processes, state, targets, emitted, inspected >>
       ELSE \E focus \in (IF mWindow = "undefined" THEN {"nowindow"}
                          ELSE {"focused", "unfocused"}) :
              IF checkSkips(focus)
              THEN /\ timers' = setTimeout(timers, LongDelay) \ {t}
                   /\ mTimer' = freeHandle(timers)
                   /\ tick' = [fired |-> TRUE, active |-> mActive, focus |-> focus,
                               outcome |-> "skipped", armed |-> LongDelay]
                   /\ UNCHANGED << pc, os, processes, state, targets, emitted, inspected >>
              ELSE \E answer \in Answers(mImpl, SchedLists) :
                     \E r \in {getProcessList(answer)} :
                     /\ timers' = ts
                     /\ os' = answer
                     /\ emitted' = << >> /\ inspected' = << >>
                     /\ UNCHANGED mTimer
                     /\ IF r.threw \/ indexThrows(r.list)
                        THEN /\ tick' = [fired |-> TRUE, active |-> mActive, focus |-> focus,
                                         outcome |-> "threw", armed |-> 0]
                             /\ processes' = << >> /\ state' = << >> /\ targets' = << >>
                             /\ UNCHANGED pc
                        ELSE /\ tick' = [fired |-> TRUE, active |-> mActive, focus |-> focus,
                                         outcome |-> "running", armed |-> 0]
                             /\ processes' = r.list
                             /\ state' = toolsRunning
                             /\ targets' = updateCalls(config)
                             /\ pc' = "update"
  /\ UNCHANGED << mImpl, mActive, mWindow, remote, toolsRunning, config, lastCall, walk >>

\* What GetModuleList would answer during one update call: an answer for each
\* same-named process the call may ask about, in list order. find asks only
\* up to the first answer that matches; several answers may match.
Answers4(target) ==
  [1..Len(byName(processes, makeExeId(target.exePath))) -> ModuleLists]

\* The update call deciding on the store's current toolsRunning instead of
\* the state doCheck read at line 165.
Update_ReadsStore(r) ==
  /\ pc = "update"
  /\ targets # << >>
  /\ \E answers \in Answers4(Head(targets)) :
     \E u \in {update(Head(targets), toolsRunning, processes, answers)} :
     \E m \in {react(Sched, r)} :
           /\ r = "none" \/ u.dispatch # << >>
           /\ r = "none" \/ Cardinality(m.timers) < MaxTimers
           /\ emitted' = emitted \o u.dispatch
           /\ inspected' = inspected \o
                [i \in 1..Len(u.calls) |->
                   [target |-> Head(targets), pid |-> u.calls[i].pid,
                    modules |-> u.calls[i].modules]]
           /\ toolsRunning' = IF u.dispatch = << >> THEN toolsRunning
                              ELSE reduce(toolsRunning, u.dispatch[Len(u.dispatch)])
           /\ mActive' = m.mActive /\ mTimer' = m.mTimer
           /\ mWindow' = m.mWindow /\ timers' = m.timers
  /\ lastCall' = CASE r = "end" -> "end"
                   [] r \in {"start", "endstart"} -> "start"
                   [] OTHER -> lastCall
  /\ targets' = Tail(targets)
  /\ walk' = [on |-> FALSE, filtered |-> walked(Head(targets), state, processes)]
  /\ UNCHANGED << mImpl, remote, config, pc, os, processes, state, tick >>

\* The next update call of the running doCheck; the store applies what it
\* dispatches and a subscriber may call end() and start() meanwhile.
Update(r) ==
  /\ pc = "update"
  /\ targets # << >>
  /\ \E answers \in Answers4(Head(targets)) :
     \E u \in {update(Head(targets), state, processes, answers)} :
     \E m \in {react(Sched, r)} :
           /\ r = "none" \/ u.dispatch # << >>
           /\ r = "none" \/ Cardinality(m.timers) < MaxTimers
           /\ emitted' = emitted \o u.dispatch
           /\ inspected' = inspected \o
                [i \in 1..Len(u.calls) |->
                   [target |-> Head(targets), pid |-> u.calls[i].pid,
                    modules |-> u.calls[i].modules]]
           /\ toolsRunning' = IF u.dispatch = << >> THEN toolsRunning
                              ELSE reduce(toolsRunning, u.dispatch[Len(u.dispatch)])
           /\ mActive' = m.mActive /\ mTimer' = m.mTimer
           /\ mWindow' = m.mWindow /\ timers' = m.timers
  /\ lastCall' = CASE r = "end" -> "end"
                   [] r \in {"start", "endstart"} -> "start"
                   [] OTHER -> lastCall
  /\ targets' = Tail(targets)
  /\ walk' = [on |-> FALSE, filtered |-> walked(Head(targets), state, processes)]
  /\ UNCHANGED << mImpl, remote, config, pc, os, processes, state, tick >>

\* check() re-arming although the monitor was stopped meanwhile.
rearms_Always(active) == TRUE

\* Line 144: after doCheck the timer is armed again if the monitor is active.
rearms(active) == active

\* doCheck has returned: lines 144-146 of check().
CheckReturn ==
  /\ pc = "update"
  /\ targets = << >>
  /\ pc' = "idle"
  /\ IF rearms(mActive)
     THEN /\ timers' = setTimeout(timers, ShortDelay)
          /\ mTimer' = freeHandle(timers)
          /\ tick' = [tick EXCEPT !.outcome = "returned", !.armed = ShortDelay]
     ELSE /\ tick' = [tick EXCEPT !.outcome = "returned"]
          /\ UNCHANGED << timers, mTimer >>
  /\ UNCHANGED << mImpl, mActive, mWindow, remote, toolsRunning, config, os,
                  processes, state, targets, emitted, inspected, lastCall, walk >>

----------------------------------------------------------------------------
(* Spec: the monitor in its host, polling a small process table *)

WalkIdle == [on |-> FALSE]

\* The configurations the scheduler is run with: no game, the game alone, the
\* game with one tool.
SchedConfigs ==
  { [gameExe |-> Undefined, gamePath |-> GamePath, tools |-> << >>] } \cup
  { [gameExe |-> GameExe, gamePath |-> GamePath, tools |-> ts] : ts \in ToolLists(1) }

NoEntries == [id \in ExeIds |-> UndefinedEntry]

Init ==
  /\ mImpl \in {"win32", "linux", "none"}
  /\ remote \in BOOLEAN
  /\ mActive = FALSE /\ mTimer = 0 /\ mWindow = "undefined" /\ timers = {}
  /\ toolsRunning = NoEntries
  /\ config \in SchedConfigs
  /\ pc = "idle" /\ os = NoAnswer
  /\ processes = << >> /\ state = << >> /\ targets = << >>
  /\ emitted = << >> /\ inspected = << >>
  /\ tick = NoTick
  /\ lastCall = "none"
  /\ walk = WalkIdle

Next ==
  \/ Start
  \/ End
  \/ Fire
  \/ \E r \in Reactions : Update(r)
  \/ CheckReturn

Spec == Init /\ [][Next]_vars

----------------------------------------------------------------------------
(* SpecTrack: one doCheck, from its first update call, on any snapshot, any  *)
(* known running state and any discovered tools                             *)

TrackConfigs ==
  { [gameExe |-> GameExe, gamePath |-> GamePath, tools |-> ts] : ts \in ToolLists(1) }

\* The exeIds the update calls of a configuration read.
targetIds(cfg) == { makeExeId(updateCalls(cfg)[i].exePath) : i \in 1..Len(updateCalls(cfg)) }

\* The path recorded with an entry: that of the first target with that exeId.
firstPath(cfg, id) ==
  updateCalls(cfg)[CHOOSE i \in 1..Len(updateCalls(cfg)) :
                     /\ makeExeId(updateCalls(cfg)[i].exePath) = id
                     /\ \A j \in 1..(i - 1) : makeExeId(updateCalls(cfg)[j].exePath) # id].exePath

\* The running states the store may hold for a configuration: for each target
\* exeId nothing, or a pid recorded by an earlier Started.
KnownStates(cfg) ==
  { tr \in [ExeIds -> {UndefinedEntry} \cup
                      { [exePath |-> path, pid |-> p, exclusive |-> FALSE] :
                          path \in { u.path : u \in ToolChoices } \cup { join(GamePath, GameExe) },
                          p \in 2..MaxPid }] :
      \A id \in ExeIds :
        tr[id] # UndefinedEntry => id \in targetIds(cfg) /\ tr[id].exePath = firstPath(cfg, id) }

InitTrack ==
  /\ mImpl = "win32" /\ remote = FALSE
  /\ mActive = TRUE /\ mTimer = 1 /\ mWindow = "undefined" /\ timers = {}
  /\ config \in TrackConfigs
  /\ toolsRunning \in KnownStates(config)
  /\ pc = "update" /\ os = NoAnswer
  /\ processes \in ProcLists(2..MaxPid, 0..MaxPid, ExeFiles, 2)
  /\ state = toolsRunning
  /\ targets = updateCalls(config)
  /\ emitted = << >> /\ inspected = << >>
  /\ tick = [fired |-> TRUE, active |-> TRUE, focus |-> "nowindow", outcome |-> "running",
             armed |-> 0]
  /\ lastCall = "start"
  /\ walk = WalkIdle

NextTrack ==
  \/ Update("none")
  \/ CheckReturn

SpecTrack == InitTrack /\ [][NextTrack]_vars

----------------------------------------------------------------------------
(* SpecWalk: one ancestry walk on any snapshot with distinct pids *)

InitWalk ==
  /\ mImpl = "win32" /\ remote = FALSE
  /\ mActive = TRUE /\ mTimer = 1 /\ mWindow = "undefined" /\ timers = {}
  /\ toolsRunning = NoEntries
  /\ config = [gameExe |-> GameExe, gamePath |-> GamePath, tools |-> << >>]
  /\ pc = "walk" /\ os = NoAnswer
  /\ processes \in ProcLists(Pids, 0..MaxPid, { << "u" >> }, MaxPid)
  /\ state = toolsRunning /\ targets = << >>
  /\ emitted = << >> /\ inspected = << >>
  /\ tick = NoTick
  /\ lastCall = "start"
  /\ \E i \in 1..Len(processes) :
       walk = [on |-> TRUE, start |-> processes[i], proc |-> processes[i],
               visited |-> {}, calls |-> 0, done |-> FALSE, result |-> FALSE,
               why |-> "running"]

\* One call of isChildProcess in the walk started by
\* exeRunning.filter(proc => isChildProcess(proc, new Set())).
WalkCall ==
  /\ walk.on /\ ~walk.done
  /\ walk.calls < MaxPid + 3
  /\ LET c == isChildProcessCall(processes, walk.proc, walk.visited)
     IN  walk' = IF c.done
                 THEN [walk EXCEPT !.calls = @ + 1, !.done = TRUE,
                                   !.result = c.result, !.why = c.why]
                 ELSE [walk EXCEPT !.calls = @ + 1, !.proc = c.proc,
                                   !.visited = c.visited]
  /\ UNCHANGED << mImpl, mActive, mTimer, mWindow, remote, timers, toolsRunning,
                  config, pc, os, processes, state, targets, emitted, inspected, tick,
                  lastCall >>

NextWalk == WalkCall

SpecWalk == InitWalk /\ [][NextWalk]_vars

----------------------------------------------------------------------------
(* Claims about the ancestry walk (SpecWalk) *)

DistinctPids == {processes[i].processID : i \in 1..Len(processes)}

\* The record k parent links above proc, following byPid; UndefinedProc once the
\* chain has left the snapshot or reached a parent pid of 0.
RECURSIVE Ancestor(_, _, _)
Ancestor(procs, proc, k) ==
  IF k = 0 THEN proc
  ELSE LET a == Ancestor(procs, proc, k - 1)
       IN  IF a = UndefinedProc \/ a.parentProcessID = 0 THEN UndefinedProc
           ELSE byPid(procs, a.parentProcessID)

\* The parent chain of proc never ends and never names the root: it runs
\* into a cycle that does not contain the root pid.
CycleWithoutRoot(procs, proc) ==
  \A k \in 0..Len(procs) :
    LET a == Ancestor(procs, proc, k)
    IN  /\ a # UndefinedProc
        /\ a.parentProcessID # 0
        /\ a.parentProcessID # vortexPid

\* C1: on every snapshot, cyclic or self-parented chains included, the walk
\* makes at most (number of distinct pids + 1) calls of isChildProcess and has
\* returned by then; and it returns false when the chain runs into a cycle
\* that does not contain the root pid.
C1_WalkTerminates ==
  walk.on =>
    /\ walk.calls <= Cardinality(DistinctPids) + 1
    /\ (walk.calls = Cardinality(DistinctPids) + 1 => walk.done)
    /\ (walk.done /\ CycleWithoutRoot(processes, walk.start) => walk.result = FALSE)

\* A walk stopped by the visited set on a two-process cycle (pid x -> parent y,
\* pid y -> parent x), after three calls.
C1_Witness ==
  /\ walk.on /\ walk.done /\ walk.why = "cycle"
  /\ walk.result = FALSE
  /\ walk.calls = 3
  /\ walk.start.parentProcessID # walk.start.processID
  /\ byPid(processes, walk.start.parentProcessID) # UndefinedProc
  /\ byPid(processes, walk.start.parentProcessID).parentProcessID = walk.start.processID

----------------------------------------------------------------------------
(* Claims about the scheduler (Spec) *)

\* The last enumeration failed for good: the listing itself, or the read of
\* one entry with an error other than ENOENT.
Fatal(answer) ==
  \/ answer.readdir = "EIO"
  \/ \E i \in 1..Len(answer.entries) : answer.entries[i].stat = "EACCES"

\* The last enumeration lost single processes between the listing and the
\* read of their stat file, and nothing else went wrong.
Vanished(answer) ==
  /\ answer.readdir = "ok"
  /\ \E i \in 1..Len(answer.entries) : answer.entries[i].stat = "ENOENT"
  /\ \A i \in 1..Len(answer.entries) : answer.entries[i].stat \in {"ok", "ENOENT"}

\* C2 as claimed: when the enumeration of a tick's check fails for good while
\* the scheduler is active, the scheduler still has a timer armed for the next
\* period once the callback has ended. The code lets the exception leave
\* check() before line 144, so no timer is armed.
C2_RearmsAfterFatal ==
  (tick.fired /\ tick.active /\ tick.outcome = "threw" /\ Fatal(os) /\ pc = "idle")
    => \E t \in timers : t.handle = mTimer

\* C3 as claimed: when single processes vanish during the enumeration, the
\* check is not aborted: it goes on with the remaining records. The code
\* keeps the null in the list and doCheck throws on it.
C3_VanishedOmitted ==
  (tick.fired /\ tick.active /\ tick.focus # "unfocused" /\ Vanished(os))
    => /\ tick.outcome \in {"running", "returned"}
       /\ processes = SelectSeq([i \in 1..Len(os.entries) |-> getProcessInfo(os.entries[i]).info],
                                LAMBDA e : e # Null)

\* C4 as claimed: at most one timer is pending, and none while a check is
\* executing. A subscriber that calls end() and start() during a dispatch
\* arms a timer inside the check, and check() arms a second one on return.
C4_OneTimerNoneInCheck ==
  /\ Cardinality(timers) <= 1
  /\ pc = "update" => timers = {}

\* C5: from end() until the next start() no timer is armed and no check is
\* started: a callback that fires meanwhile does nothing, and a check that was
\* executing when end() was called returns without arming.
C5_NothingAfterEnd ==
  [][ (lastCall = "end" /\ lastCall' = "end")
        => /\ timers' \subseteq timers
           /\ (pc' = "update" => pc = "update")
           /\ tick'.outcome \in {"none", "inactive", "returned"} \/ tick' = tick
           /\ ~mActive' ]_vars

\* A check that was executing when end() was called has returned and armed
\* nothing.
C5_Witness ==
  /\ lastCall = "end" /\ pc = "idle"
  /\ tick.outcome = "returned" /\ tick.armed = 0
  /\ emitted # << >>
  /\ timers = {}

\* C6 as claimed: every tick that fires while the scheduler is active runs the
\* check, focused or not.
C6_EveryActiveTickChecks ==
  (tick.fired /\ tick.active) => tick.outcome \in {"running", "returned", "threw"}

\* C6 amended: a tick that fires while the scheduler is active runs the check
\* exactly when the window is focused or there is no window; then the period
\* armed after the check is the short one. With a window that is not focused
\* the check is skipped and the long period is armed at once.
C6_TickChecksUnlessUnfocused ==
  (tick.fired /\ tick.active) =>
    /\ tick.focus = "unfocused" <=> tick.outcome = "skipped"
    /\ tick.outcome = "skipped" => tick.armed = LongDelay /\ pc = "idle"
    /\ tick.outcome \in {"running", "threw"} => tick.armed = 0
    /\ tick.outcome = "returned" => tick.armed \in {0, ShortDelay}

\* A tick fired with the window not focused: no check, the long period armed.
C6_Witness ==
  /\ tick.fired /\ tick.active /\ tick.focus = "unfocused"
  /\ tick.outcome = "skipped"
  /\ \E t \in timers : t.handle = mTimer /\ t.delay = LongDelay

----------------------------------------------------------------------------
(* Claims about one check (SpecTrack) *)

\* The update calls the running check has made so far.
evaluated == SubSeq(updateCalls(config), 1, Len(updateCalls(config)) - Len(targets))

TargetPaths == { updateCalls(config)[i].exePath : i \in 1..Len(updateCalls(config)) }

\* The transitions the check has emitted for a path, in order.
EmittedFor(path) == SelectSeq(emitted, LAMBDA a : a.exePath = path)

\* The entry the known running state (as read at the start of the check)
\* holds for a path: the one under its exeId.
KnownFor(path) == state[makeExeId(path)]

\* The known entry of a path names a pid that is in the snapshot.
KnownAlive(path) ==
  KnownFor(path) # UndefinedEntry /\ byPid(processes, KnownFor(path).pid) # UndefinedProc

\* The known entry of a path names a pid that is not in the snapshot.
KnownStale(path) ==
  KnownFor(path) # UndefinedEntry /\ byPid(processes, KnownFor(path).pid) = UndefinedProc

\* The GetModuleList calls of an update call whose answer has the target's
\* path as main module.
Confirmed(target) ==
  { k \in 1..Len(inspected) :
      /\ inspected[k].target = target
      /\ moduleMatches(inspected[k].modules, target.exePath) }

\* C7 as claimed: a target whose known entry names a pid of the snapshot gets
\* no transition, whatever runs under that pid and whether or not a process
\* with the target's name exists.
C7_KnownPidAliveNoTransition ==
  \A path \in TargetPaths : KnownAlive(path) => EmittedFor(path) = << >>

\* C7 amended: a target whose known entry names a pid of the snapshot gets no
\* transition, provided some process of the snapshot has the target's
\* lower-cased executable name; the process under the known pid may have any
\* name.
C7_SteadyNoTransition ==
  \A path \in TargetPaths :
    (KnownAlive(path) /\ byName(processes, makeExeId(path)) # << >>)
      => EmittedFor(path) = << >>

\* A finished check that left a target alone whose known pid is now held by a
\* process of another name, while a same-named process with the target's
\* main module runs elsewhere.
C7_Witness ==
  /\ targets = << >>
  /\ \E path \in TargetPaths :
       /\ KnownAlive(path)
       /\ toLowerCase(byPid(processes, KnownFor(path).pid).exeFile) # makeExeId(path)
       /\ byName(processes, makeExeId(path)) # << >>
       /\ EmittedFor(path) = << >>

\* C8 as claimed: for a target path whose known entry names a pid that is gone
\* and for which no candidate was confirmed, the finished check has emitted
\* exactly one transition, Stopped. A path that is both the game's and a
\* tool's is evaluated twice against the same state and gets two.
C8_ExactlyOneStopped ==
  targets = << >> =>
    \A i \in 1..Len(updateCalls(config)) :
      LET path == updateCalls(config)[i].exePath IN
      (/\ KnownStale(path)
       /\ \A j \in 1..Len(updateCalls(config)) :
            updateCalls(config)[j].exePath = path => Confirmed(updateCalls(config)[j]) = {})
        => EmittedFor(path) = << setToolStopped(path) >>

\* C9 as claimed: for a target path whose known entry names a pid that is
\* gone, the first transition emitted is Stopped.
C9_StoppedFirst ==
  \A path \in TargetPaths :
    (KnownStale(path) /\ EmittedFor(path) # << >>)
      => EmittedFor(path)[1] = setToolStopped(path)

\* C9 amended: for a target path whose known entry names a pid that is gone,
\* the first update call for that path emits a transition: Stopped when it
\* confirmed no candidate, else Started with the confirmed candidate's pid,
\* which replaces the stale entry with no Stopped before it.
C9_StoppedOrReplaced ==
  \A i \in 1..Len(evaluated) :
    LET t == evaluated[i]
        first == \A j \in 1..(i - 1) : evaluated[j].exePath # t.exePath
    IN  (first /\ KnownStale(t.exePath)) =>
          /\ EmittedFor(t.exePath) # << >>
          /\ IF Confirmed(t) = {}
             THEN EmittedFor(t.exePath)[1] = setToolStopped(t.exePath)
             ELSE \E k \in Confirmed(t) :
                    EmittedFor(t.exePath)[1] =
                      setToolPid(t.exePath, inspected[k].pid, t.exclusive)

\* A finished check that replaced a stale entry: the first transition for the
\* path is Started with another pid.
C9_Witness ==
  /\ targets = << >>
  /\ \E path \in TargetPaths :
       /\ KnownStale(path)
       /\ EmittedFor(path) # << >>
       /\ EmittedFor(path)[1].type = "SET_TOOL_RUNNING"
       /\ EmittedFor(path)[1].pid # KnownFor(path).pid

\* C10 as claimed: within one check no Started is emitted twice for the same
\* path and pid, and no Stopped twice for the same path. A tool whose path is
\* the game's is evaluated against the state read before the game's
\* transition was dispatched, and repeats it.
C10_NoRepeatedTransition ==
  \A i, j \in 1..Len(emitted) :
    (i < j) =>
      ~ /\ emitted[i].type = emitted[j].type
        /\ emitted[i].exePath = emitted[j].exePath
        /\ emitted[i].pid = emitted[j].pid

\* The main module of a module list is the path, compared without case.
MainModuleIs(modules, path) ==
  Len(modules) > 0 /\ toLowerCase(modules[1]) = toLowerCase(path)

\* C11: an update call that emits Started{P, pid} has just asked GetModuleList
\* about that pid and was answered a list whose first entry is P without
\* regard to case; every same-named process it asked about before was
\* answered otherwise and is not reported.
C11_StartedNamesMatchingModule ==
  [][ \A i \in (Len(emitted) + 1)..Len(emitted') :
        emitted'[i].type = "SET_TOOL_RUNNING" =>
          /\ Len(inspected') > Len(inspected)
          /\ LET r == inspected'[Len(inspected')]
             IN  /\ r.target = Head(targets)
                 /\ r.target.exePath = emitted'[i].exePath
                 /\ r.pid = emitted'[i].pid
                 /\ MainModuleIs(r.modules, emitted'[i].exePath)
          /\ \A k \in (Len(inspected) + 1)..(Len(inspected') - 1) :
               /\ ~MainModuleIs(inspected'[k].modules, emitted'[i].exePath)
               /\ inspected'[k].pid # emitted'[i].pid ]_vars

\* Two processes named like the game: the first asked about runs another file
\* of that name, the second runs the game (path in another case), and Started
\* names the second.
C11_Witness ==
  /\ Len(inspected) >= 2 /\ Len(emitted) >= 1
  /\ inspected[1].target.tool = 0 /\ inspected[2].target.tool = 0
  /\ inspected[1].pid # inspected[2].pid
  /\ inspected[1].modules = << << "b", "/", "t" >> >>
  /\ inspected[2].modules = << << "A", "/", "T" >> >>
  /\ emitted[1] = setToolPid(join(GamePath, GameExe), inspected[2].pid, TRUE)

\* The monitor's pid occurs on the parent chain of proc: some record reached
\* from proc by parent links through the snapshot (proc itself included) has
\* the monitor as its parent. The chain ends at a missing record or at a
\* parent pid of 0.
Descends(procs, proc) ==
  \E k \in 0..Len(procs) :
    LET a == Ancestor(procs, proc, k)
    IN  a # UndefinedProc /\ a.parentProcessID = vortexPid

\* C12: an update call for a tool (no detached matches) emits Started only
\* for a process of the snapshot that has the tool's name and descends from
\* the monitor, and asks GetModuleList about no other process; so a tool
\* whose same-named processes all fail the ancestry test gets no Started.
C12_ToolStartedOnlyForDescendant ==
  [][ (targets # << >> /\ ~Head(targets).considerDetached) =>
        /\ \A i \in (Len(emitted) + 1)..Len(emitted') :
             emitted'[i].type = "SET_TOOL_RUNNING" =>
               LET proc == byPid(processes, emitted'[i].pid)
               IN  /\ proc # UndefinedProc
                   /\ toLowerCase(proc.exeFile) = makeExeId(emitted'[i].exePath)
                   /\ Descends(processes, proc)
        /\ \A k \in (Len(inspected) + 1)..Len(inspected') :
             Descends(processes, byPid(processes, inspected'[k].pid)) ]_vars

\* A finished check of the game and a tool of the same file name, nothing
\* known: the one same-named process is no descendant of the monitor and its
\* main module is the tool's path, as the game's update call was answered.
\* Nothing is emitted.
C12_Witness ==
  /\ targets = << >> /\ emitted = << >>
  /\ Len(updateCalls(config)) = 2
  /\ state[makeExeId(updateCalls(config)[2].exePath)] = UndefinedEntry
  /\ Len(inspected) = 1
  /\ inspected[1].target.tool = 0
  /\ MainModuleIs(inspected[1].modules, updateCalls(config)[2].exePath)
  /\ ~Descends(processes, byPid(processes, inspected[1].pid))

----------------------------------------------------------------------------
(* More claims about the ancestry walk (SpecWalk) *)

\* C13: the walk returns true exactly when the monitor's pid occurs on the
\* parent chain of the record it was started on, and so does isChildProcess
\* on every record of the snapshot: the visited set never rejects a
\* descendant.
C13_WalkDecidesDescent ==
  /\ (walk.on /\ walk.done) => (walk.result <=> Descends(processes, walk.start))
  /\ \A i \in 1..Len(processes) :
       isChildProcess(processes, processes[i], {}) <=> Descends(processes, processes[i])

\* A walk that found the monitor two links up: the record's parent is in the
\* snapshot and is a child of the monitor.
C13_Witness ==
  /\ walk.on /\ walk.done /\ walk.result /\ walk.why = "root"
  /\ walk.calls = 2
  /\ walk.start.parentProcessID # vortexPid
  /\ byPid(processes, walk.start.parentProcessID).parentProcessID = vortexPid

----------------------------------------------------------------------------
(* More claims about one check (SpecTrack) *)

\* C14: a target with no same-named process in the snapshot and no known
\* entry gets no transition.
C14_AbsentAndUnknownSilent ==
  \A path \in TargetPaths :
    (byName(processes, makeExeId(path)) = << >> /\ KnownFor(path) = UndefinedEntry)
      => EmittedFor(path) = << >>

\* A finished check over a snapshot with processes, none of them named like
\* one unknown target: that target got nothing, another one did.
C14_Witness ==
  /\ targets = << >> /\ processes # << >> /\ emitted # << >>
  /\ \E path \in TargetPaths :
       /\ byName(processes, makeExeId(path)) = << >>
       /\ KnownFor(path) = UndefinedEntry
       /\ EmittedFor(path) = << >>

----------------------------------------------------------------------------
(* More claims about the scheduler (Spec) *)

\* A step in which the host calls start(): the one step that leaves the
\* thread idle, records the call and forgets the last tick.
HostStarts == pc = "idle" /\ pc' = "idle" /\ lastCall' = "start" /\ tick' = NoTick

\* C15: start() called while the scheduler is active changes nothing: the
\* pending timers, the handle kept, the window and the activity stay as they
\* are. So once start() has been called and until a tick fires or end() is
\* called, exactly one timer is pending, however often start() is called.
C15_StartIdempotent ==
  [][ /\ (HostStarts /\ mActive) =>
           (timers' = timers /\ mTimer' = mTimer /\ mWindow' = mWindow /\ mActive')
      /\ (HostStarts /\ mImpl # "none" /\ lastCall \in {"none", "start"}
            /\ (lastCall = "start" => tick = NoTick))
           => (Cardinality(timers') = 1 /\ \A t \in timers' : t.delay = ShortDelay)
    ]_vars

\* start() was called on an active scheduler whose pending timer was armed by
\* a skipped tick: the long timer is still the one pending.
C15_Witness ==
  /\ lastCall = "start" /\ tick = NoTick /\ pc = "idle"
  /\ mActive
  /\ timers = { [handle |-> mTimer, delay |-> LongDelay] }

\* A step in which the host calls end().
HostEnds == pc = "idle" /\ pc' = "idle" /\ lastCall' = "end" /\ tick' = NoTick

\* C16 as claimed: end() on an active scheduler leaves it idle with no timer
\* pending, and end() on an idle one changes nothing. end() clears the one
\* timer whose handle it holds: a second timer armed by a check that a
\* subscriber restarted stays pending.
C16_EndCancelsAndIdles ==
  [][ HostEnds =>
        /\ mActive => (~mActive' /\ mTimer' = 0 /\ timers' = {})
        /\ ~mActive => (timers' = timers /\ mTimer' = mTimer /\ mWindow' = mWindow /\ ~mActive')
    ]_vars

\* The timer a tick armed is the one the scheduler holds, and its period
\* follows the focus the tick saw: the baseline when the window was focused
\* or there is none, the long period when it was not focused.
ArmedPeriodFollowsFocus ==
  (tick.fired /\ tick.armed # 0) =>
    /\ \E t \in timers : t.handle = mTimer /\ t.delay = tick.armed
    /\ tick.focus \in {"focused", "nowindow"} => tick.armed = ShortDelay
    /\ tick.focus = "unfocused" => tick.armed = LongDelay

\* C17: whenever a tick arms the next one, the period is 2000 ms if the window
\* was focused or no window handle exists and 5000 ms (2.5 times as long, so
\* strictly longer) if it was not focused; a start() that activates the
\* scheduler arms 2000 ms.
C17_PeriodFollowsFocus ==
  [][ /\ ArmedPeriodFollowsFocus'
      /\ 2 * LongDelay = 5 * ShortDelay /\ LongDelay > ShortDelay
      /\ (HostStarts /\ ~mActive /\ mImpl # "none")
           => \E t \in timers' : t.handle = mTimer' /\ t.delay = ShortDelay /\ t \notin timers
    ]_vars

\* A check run with the window focused has returned and armed the baseline
\* period.
C17_Witness ==
  /\ tick.fired /\ tick.focus = "focused" /\ tick.outcome = "returned"
  /\ tick.armed = ShortDelay
  /\ \E t \in timers : t.handle = mTimer /\ t.delay = ShortDelay

\* C18: on a platform without enumerator the monitor is inert: whatever
\* start() and end() calls are made, it is never active, no timer is armed,
\* no callback runs, nothing is enumerated and nothing is emitted.
C18_InertWithoutEnumerator ==
  mImpl = "none" =>
    /\ ~mActive /\ mTimer = 0 /\ timers = {}
    /\ pc = "idle" /\ ~tick.fired
    /\ os = NoAnswer /\ emitted = << >> /\ inspected = << >>
    /\ toolsRunning = NoEntries

\* start() has been called on a platform without enumerator, where electron's
\* remote is defined, and nothing has moved.
C18_Witness ==
  /\ mImpl = "none" /\ remote
  /\ lastCall = "start"
  /\ ~mActive /\ timers = {} /\ mWindow = "undefined"

----------------------------------------------------------------------------
(* Claims about the module inspector and the order of targets (SpecTrack) *)

\* The GetModuleList calls the update call of this step makes, in order.
Asked == SubSeq(inspected', Len(inspected) + 1, Len(inspected'))

\* The actions the update call of this step dispatches.
Dispatched == SubSeq(emitted', Len(emitted) + 1, Len(emitted'))

\* C19: an update call that is answered an empty module list for a candidate
\* does not report that candidate and asks about the next one, if there is
\* one; when no candidate it asked about has the target's path as main
\* module it ends as if nothing had been found, with Stopped if an entry was
\* known and nothing otherwise; the check goes on with the next target.
C19_EmptyModuleListNotConfirmed ==
  [][ (pc = "update" /\ targets # << >>
         /\ \E k \in 1..Len(Asked) : Asked[k].modules = << >>) =>
        LET t == Head(targets)
            cands == candidates(processes, byName(processes, makeExeId(t.exePath)),
                                t.considerDetached)
        IN  /\ \A k \in 1..Len(Asked) :
                 Asked[k].modules = << >> =>
                   /\ \A i \in 1..Len(Dispatched) :
                        Dispatched[i].type = "SET_TOOL_RUNNING" => Dispatched[i].pid # Asked[k].pid
                   /\ k < Len(cands) =>
                        (Len(Asked) > k /\ Asked[k + 1].pid = cands[k + 1].processID)
            /\ (\A k \in 1..Len(Asked) : ~MainModuleIs(Asked[k].modules, t.exePath)) =>
                 Dispatched = IF KnownFor(t.exePath) # UndefinedEntry
                              THEN << setToolStopped(t.exePath) >> ELSE << >>
            /\ targets' = Tail(targets) /\ pc' = "update" ]_vars

\* The inspector had nothing to say about the first process named like the
\* game; the second one asked about runs the game and is the one reported.
C19_Witness ==
  /\ Len(inspected) >= 2 /\ Len(emitted) >= 1
  /\ inspected[1].target.tool = 0 /\ inspected[2].target.tool = 0
  /\ inspected[1].modules = << >>
  /\ inspected[1].pid # inspected[2].pid
  /\ emitted[1] = setToolPid(join(GamePath, GameExe), inspected[2].pid, TRUE)

\* C20: the update call for the game is the first of a check: nothing has been
\* emitted or inspected when it is made, every update call for a tool is made
\* after it, and what a tool's call dispatches comes after everything the
\* game's call dispatched.
C20_GameBeforeTools ==
  [][ (pc = "update" /\ targets # << >>) =>
        IF Head(targets).tool = 0
        THEN /\ Head(targets).exePath = join(config.gamePath, config.gameExe)
             /\ evaluated = << >>
             /\ emitted = << >> /\ inspected = << >>
        ELSE /\ evaluated # << >> /\ evaluated[1].tool = 0
             /\ \A i \in 1..Len(targets) : targets[i].tool # 0
             /\ Len(emitted') >= Len(emitted)
             /\ SubSeq(emitted', 1, Len(emitted)) = emitted
    ]_vars

\* A finished check in which the game and a tool of another path each got a
\* transition: the game's is the first.
C20_Witness ==
  /\ targets = << >> /\ Len(emitted) = 2
  /\ emitted[1].exePath = join(config.gamePath, config.gameExe)
  /\ emitted[2].exePath # join(config.gamePath, config.gameExe)
  /\ emitted[2].exePath = updateCalls(config)[2].exePath

----------------------------------------------------------------------------
(* Claims about what a check reads and writes (SpecTrack) *)

\* C21: during a check the captured state and the snapshot never change; each
\* update call dispatches what update decides on that captured state and
\* that snapshot, whatever the store holds by then; and the store's
\* toolsRunning changes only by the reducer applied to a dispatched action.
C21_DecidesOnCapturedState ==
  [][ /\ state' = state /\ processes' = processes
      /\ (pc = "update" /\ targets # << >>) =>
           /\ \E answers \in Answers4(Head(targets)) :
                Dispatched = update(Head(targets), state, processes, answers).dispatch
           /\ toolsRunning' = IF Dispatched = << >> THEN toolsRunning
                              ELSE reduce(toolsRunning, Dispatched[Len(Dispatched)])
      /\ (pc = "update" /\ targets = << >>) => toolsRunning' = toolsRunning
    ]_vars

\* A finished check whose second update call decided on the captured state,
\* not on the store: the store already held the entry the game's Started had
\* written, the captured state did not, and the tool of the same path was
\* reported as started too.
C21_Witness ==
  /\ targets = << >> /\ Len(emitted) = 2
  /\ emitted[1].type = "SET_TOOL_RUNNING" /\ emitted[2].type = "SET_TOOL_RUNNING"
  /\ emitted[1].exePath = emitted[2].exePath
  /\ state[makeExeId(emitted[1].exePath)] = UndefinedEntry
  /\ toolsRunning[makeExeId(emitted[1].exePath)] # UndefinedEntry

\* C22: an update call for a target with a known entry and no same-named
\* process in the snapshot dispatches Stopped for the target's path and
\* nothing else, and asks the module inspector nothing; whether the known pid
\* is in the snapshot makes no difference.
C22_AbsentAndKnownStopped ==
  [][ (pc = "update" /\ targets # << >>
         /\ byName(processes, makeExeId(Head(targets).exePath)) = << >>
         /\ KnownFor(Head(targets).exePath) # UndefinedEntry)
        => /\ Dispatched = << setToolStopped(Head(targets).exePath) >>
           /\ Asked = << >>
    ]_vars

\* A finished check that stopped the game although the pid known for it is
\* in the snapshot: no process there has the game's name, the one under the
\* known pid runs something else.
C22_Witness ==
  /\ targets = << >>
  /\ byName(processes, makeExeId(join(GamePath, GameExe))) = << >>
  /\ KnownAlive(join(GamePath, GameExe))
  /\ emitted # << >> /\ emitted[1] = setToolStopped(join(GamePath, GameExe))
  /\ inspected = << >>

\* The place of a pid in the snapshot's enumeration order (0 if absent).
PosOf(pid) ==
  IF \E i \in 1..Len(processes) : processes[i].processID = pid
  THEN CHOOSE i \in 1..Len(processes) : processes[i].processID = pid
  ELSE 0

\* C23: the pid an update call reports in Started is that of the first
\* candidate, in the snapshot's enumeration order, whose main module is the
\* target's path: every process enumerated before it that has the target's
\* name (and descends from the monitor where that is required) was asked
\* about, in that order, and did not match.
C23_FirstMatchInEnumerationOrder ==
  [][ (pc = "update" /\ targets # << >>) =>
        \A d \in 1..Len(Dispatched) :
          Dispatched[d].type = "SET_TOOL_RUNNING" =>
            LET t == Head(targets)
            IN  /\ PosOf(Dispatched[d].pid) # 0
                /\ \A i \in 1..(PosOf(Dispatched[d].pid) - 1) :
                     (/\ toLowerCase(processes[i].exeFile) = makeExeId(t.exePath)
                      /\ t.considerDetached \/ Descends(processes, processes[i]))
                       => \E k \in 1..Len(Asked) :
                            /\ Asked[k].pid = processes[i].processID
                            /\ ~MainModuleIs(Asked[k].modules, t.exePath)
                /\ \A j, k \in 1..Len(Asked) :
                     j < k => PosOf(Asked[j].pid) < PosOf(Asked[k].pid)
    ]_vars

\* Two processes run the game's executable, the one with the larger pid
\* enumerated first: the game's update call reported the first and asked no
\* further; the second, the only descendant of the monitor, was found to run
\* that path too by the update call of the tool configured with it.
C23_Witness ==
  /\ targets = << >> /\ Len(processes) = 2 /\ Len(inspected) = 2
  /\ processes[1].processID > processes[2].processID
  /\ inspected[1].target.tool = 0 /\ inspected[1].pid = processes[1].processID
  /\ inspected[2].target.tool # 0 /\ inspected[2].pid = processes[2].processID
  /\ inspected[2].target.exePath = join(GamePath, GameExe)
  /\ MainModuleIs(inspected[1].modules, join(GamePath, GameExe))
  /\ MainModuleIs(inspected[2].modules, join(GamePath, GameExe))
  /\ emitted[1] = setToolPid(join(GamePath, GameExe), processes[1].processID, TRUE)

----------------------------------------------------------------------------
(* Claims about failures and the scheduler's states (Spec) *)

\* C24: a tick whose enumeration fails for good ends in the exception, before
\* any update call: nothing is emitted, nothing inspected, and the step
\* leaves the store's toolsRunning as it was.
C24_FatalAbortsBeforeTargets ==
  [][ (tick'.fired /\ tick'.outcome \in {"running", "returned", "threw"} /\ Fatal(os'))
        => /\ tick'.outcome = "threw"
           /\ pc' = "idle" /\ targets' = << >>
           /\ emitted' = << >> /\ inspected' = << >>
           /\ toolsRunning' = toolsRunning
    ]_vars

\* The read of one stat file failed with an error other than ENOENT in a tick
\* that followed a check which had recorded a running tool: the tick threw
\* and the record is still there.
C24_Witness ==
  /\ mImpl = "linux"
  /\ tick.fired /\ tick.outcome = "threw"
  /\ os.readdir = "ok" /\ Fatal(os)
  /\ emitted = << >>
  /\ toolsRunning # NoEntries

----------------------------------------------------------------------------
(* Claims about the work one update call does (SpecTrack) *)

\* C25: an update call for a target whose known pid is in the snapshot, or
\* that has no same-named process, starts no ancestry walk and asks the
\* module inspector nothing; and whatever the target, the inspector is asked
\* only about processes of the snapshot that have the target's name and,
\* where detached matches are not allowed, were walked and descend from the
\* monitor.
C25_SteadyBeforeExpensiveWork ==
  [][ (pc = "update" /\ targets # << >>) =>
        LET t == Head(targets)
        IN  /\ (KnownAlive(t.exePath) \/ byName(processes, makeExeId(t.exePath)) = << >>)
                 => (Asked = << >> /\ walk'.filtered = << >>)
            /\ \A k \in 1..Len(Asked) :
                 /\ PosOf(Asked[k].pid) # 0
                 /\ toLowerCase(processes[PosOf(Asked[k].pid)].exeFile) = makeExeId(t.exePath)
                 /\ t.considerDetached \/
                      /\ Descends(processes, processes[PosOf(Asked[k].pid)])
                      /\ \E i \in 1..Len(walk'.filtered) : walk'.filtered[i] = Asked[k].pid
    ]_vars

\* A finished check whose last update call was for a tool known under a pid
\* of the snapshot, with a process of its name that descends from the
\* monitor: no walk was started and the inspector was not asked for it.
C25_Witness ==
  /\ targets = << >> /\ Len(updateCalls(config)) = 2
  /\ KnownAlive(updateCalls(config)[2].exePath)
  /\ \E i \in 1..Len(processes) :
       /\ toLowerCase(processes[i].exeFile) = makeExeId(updateCalls(config)[2].exePath)
       /\ Descends(processes, processes[i])
  /\ walk = [on |-> FALSE, filtered |-> << >>]
  /\ \A k \in 1..Len(inspected) : inspected[k].target.tool = 0

----------------------------------------------------------------------------
(* More claims about the scheduler's states (Spec) *)

\* C26 as claimed: an idle scheduler has no timer armed, and an active one has
\* exactly one timer pending unless a check is executing. A check that throws
\* leaves the scheduler active with no timer; a check during which a
\* subscriber restarted the scheduler leaves two, and end() then leaves one
\* behind an idle scheduler.
C26_IdleNoTimerActiveOne ==
  /\ ~mActive => timers = {}
  /\ mActive => (Cardinality(timers) = 1 \/ pc = "update")

----------------------------------------------------------------------------
(* Claims about the game target and about single update calls (SpecTrack) *)

\* The discovered tool an update call is made for.
ToolOf(t) == SelectSeq(config.tools, LAMBDA u : u.path # Undefined)[t.tool]

\* C27: the update call for the game asks about same-named processes whatever
\* their ancestry, starting with the first enumerated, and when one has the
\* game's path as main module (the known pid not being in the snapshot) it
\* dispatches Started with the game's path, that pid and exclusive = true. A
\* Started for a tool carries the tool's configured exclusive flag, false if
\* it is not set.
C27_GameExclusiveAndDetached ==
  [][ (pc = "update" /\ targets # << >>) =>
        LET t == Head(targets)
            named == byName(processes, makeExeId(t.exePath))
        IN  IF t.tool = 0
            THEN /\ t.exePath = join(config.gamePath, config.gameExe)
                 /\ (named # << >> /\ ~KnownAlive(t.exePath)) =>
                      /\ Asked # << >> /\ Asked[1].pid = named[1].processID
                      /\ \A k \in 1..Len(Asked) :
                           MainModuleIs(Asked[k].modules, t.exePath) =>
                             Dispatched = << setToolPid(t.exePath, Asked[k].pid, TRUE) >>
                 /\ \A d \in 1..Len(Dispatched) :
                      Dispatched[d].type = "SET_TOOL_RUNNING" => Dispatched[d].exclusive
            ELSE \A d \in 1..Len(Dispatched) :
                   Dispatched[d].type = "SET_TOOL_RUNNING" =>
                     /\ Dispatched[d].exePath = ToolOf(t).path
                     /\ Dispatched[d].exclusive = (ToolOf(t).exclusive = "true")
    ]_vars

\* A finished check that reported the game as started, exclusive, under the
\* pid of a process that does not descend from the monitor, and a tool whose
\* exclusive flag is not set as started and not exclusive.
C27_Witness ==
  /\ targets = << >> /\ Len(emitted) = 2
  /\ emitted[1].type = "SET_TOOL_RUNNING" /\ emitted[1].exclusive
  /\ emitted[1].exePath = join(GamePath, GameExe)
  /\ ~Descends(processes, byPid(processes, emitted[1].pid))
  /\ Len(config.tools) = 1 /\ config.tools[1].exclusive = "undefined"
  /\ emitted[2].type = "SET_TOOL_RUNNING" /\ ~emitted[2].exclusive
  /\ emitted[2].pid # emitted[1].pid

----------------------------------------------------------------------------
(* SpecNoGame: an active scheduler polling while the game's executable or   *)
(* path is undefined, the store still holding entries of earlier checks     *)

NoGameConfigs ==
  { [gameExe |-> Undefined, gamePath |-> GamePath, tools |-> ts] : ts \in ToolLists(1) } \cup
  { [gameExe |-> GameExe, gamePath |-> Undefined, tools |-> ts] : ts \in ToolLists(1) }

\* What earlier checks may have left in the store: under each exeId nothing,
\* or a path of that exeId with a pid.
EarlierStates ==
  { tr \in [ExeIds -> {UndefinedEntry} \cup
                      { [exePath |-> path, pid |-> p, exclusive |-> FALSE] :
                          path \in { u.path : u \in ToolChoices } \cup { join(GamePath, GameExe) },
                          p \in 2..MaxPid }] :
      \A id \in ExeIds : tr[id] # UndefinedEntry => makeExeId(tr[id].exePath) = id }

InitNoGame ==
  /\ mImpl \in {"win32", "linux"} /\ remote = FALSE
  /\ mActive = TRUE /\ mTimer = 1 /\ mWindow \in {"undefined", "window"}
  /\ timers = { [handle |-> 1, delay |-> ShortDelay] }
  /\ config \in NoGameConfigs
  /\ toolsRunning \in EarlierStates
  /\ pc = "idle" /\ os = NoAnswer
  /\ processes = << >> /\ state = << >> /\ targets = << >>
  /\ emitted = << >> /\ inspected = << >>
  /\ tick = NoTick
  /\ lastCall = "start"
  /\ walk = WalkIdle

NextNoGame ==
  \/ Fire
  \/ CheckReturn

SpecNoGame == InitNoGame /\ [][NextNoGame]_vars

\* C28 as claimed: while the game's executable or path is undefined, a tick
\* of the active scheduler emits nothing and leaves a timer armed for the
\* next tick. The enumeration of line 153 comes before the test of line 187:
\* when it throws, the tick arms nothing.
C28_NoGameSilentAndRearmed ==
  (tick.fired /\ tick.active /\ pc = "idle") =>
    /\ emitted = << >> /\ inspected = << >>
    /\ \E t \in timers : t.handle = mTimer

\* C28, the part that holds: while the game's executable or path is undefined
\* a check makes no update call, emits nothing, asks the inspector nothing
\* and leaves the store's toolsRunning as it is, stale entries included;
\* when doCheck returns, check() arms the next tick with the baseline period.
C28_NoGameNoTransition ==
  [][ (config.gameExe = Undefined \/ config.gamePath = Undefined) =>
        /\ targets' = << >> /\ emitted' = << >> /\ inspected' = << >>
        /\ toolsRunning' = toolsRunning
        /\ (pc = "update" /\ pc' = "idle") =>
             \E t \in timers' \ timers : t.handle = mTimer' /\ t.delay = ShortDelay
    ]_vars

\* A check has returned and re-armed without emitting anything although the
\* store holds, for the one discovered tool, a pid that is not in the
\* snapshot; the game has an executable but no path.
C28_Witness ==
  /\ config.gamePath = Undefined /\ Len(config.tools) = 1
  /\ pc = "idle" /\ tick.outcome = "returned" /\ tick.armed = ShortDelay
  /\ \E t \in timers : t.handle = mTimer
  /\ processes # << >>
  /\ \E id \in ExeIds :
       /\ toolsRunning[id] # UndefinedEntry
       /\ toolsRunning[id].exePath = config.tools[1].path
       /\ byPid(processes, toolsRunning[id].pid) = UndefinedProc
  /\ emitted = << >>

----------------------------------------------------------------------------
(* Claims about the transitions of one update call (SpecTrack) *)

\* C29: an update call dispatches at most one action, never a Stopped and a
\* Started together, and a Stopped it dispatches names the path it was called
\* with, the state read at the start of the check holding an entry under that
\* path's exeId.
C29_StoppedOnlyIfKnownAtMostOne ==
  [][ (pc = "update" /\ targets # << >>) =>
        /\ Len(Dispatched) <= 1
        /\ \A d \in 1..Len(Dispatched) :
             /\ Dispatched[d].exePath = Head(targets).exePath
             /\ Dispatched[d].type = "SET_TOOL_STOPPED" =>
                  state[makeExeId(Head(targets).exePath)] # UndefinedEntry
    ]_vars

\* A finished check that found a process named like a target whose known pid
\* is gone, asked about it, was not given the target's path as main module,
\* and dispatched one Stopped for that path and nothing else for it.
C29_Witness ==
  /\ targets = << >> /\ inspected # << >>
  /\ \E path \in TargetPaths :
       /\ KnownStale(path)
       /\ byName(processes, makeExeId(path)) # << >>
       /\ EmittedFor(path) = << setToolStopped(path) >>
       /\ toolsRunning[makeExeId(path)] = UndefinedEntry

----------------------------------------------------------------------------
(* SpecLive: a started monitor that stays active while the game runs: every  *)
(* enumeration succeeds and lists a process named like the game, the module *)
(* inspector reports the game's path for it, and the store knows no live    *)
(* pid. A pending timeout fires and synchronous code runs on: weak          *)
(* fairness. What a tick finds of the window's focus is the host's.         *)

\* What the store may hold when the monitor is started: under each exeId
\* nothing, or an entry whose pid no snapshot lists.
StaleStates ==
  { tr \in EarlierStates :
      \A id \in ExeIds : tr[id] # UndefinedEntry => tr[id].pid < MaxPid }

InitLive ==
  /\ mImpl \in {"win32", "linux"}
  /\ \E w \in {"undefined", "window"} : mWindow = w /\ remote = (w = "window")
  /\ mActive = TRUE /\ mTimer = 1
  /\ timers = { [handle |-> 1, delay |-> ShortDelay] }
  /\ config \in TrackConfigs
  /\ toolsRunning \in StaleStates
  /\ pc = "idle" /\ os = NoAnswer
  /\ processes = << >> /\ state = << >> /\ targets = << >>
  /\ emitted = << >> /\ inspected = << >>
  /\ tick = NoTick
  /\ lastCall = "start"
  /\ walk = WalkIdle

\* A tick of check(): skipped, or a doCheck whose enumeration succeeds and
\* lists a process named like the game.
FireLive ==
  /\ Fire
  /\ pc' = "update" \/ tick'.outcome = "skipped"
  /\ pc' = "update" => byName(processes', makeExeId(join(GamePath, GameExe))) # << >>

\* A tick of check() that runs doCheck.
FireChecks == FireLive /\ pc' = "update"

\* An update call no subscriber reacts to; in the game's, the inspector
\* reports the game's path as main module of a process it is asked about.
UpdateLive ==
  /\ Update("none")
  /\ Head(targets).tool = 0 =>
       \A k \in 1..Len(Asked) :
         k = Len(Asked) => MainModuleIs(Asked[k].modules, Head(targets).exePath)

NextLive ==
  \/ FireLive
  \/ UpdateLive
  \/ CheckReturn

SpecLive ==
  /\ InitLive /\ [][NextLive]_vars
  /\ WF_vars(FireLive) /\ WF_vars(UpdateLive) /\ WF_vars(CheckReturn)

\* The running check has dispatched Started for the game's path.
GameStarted ==
  \E i \in 1..Len(emitted) :
    /\ emitted[i].type = "SET_TOOL_RUNNING"
    /\ emitted[i].exePath = join(GamePath, GameExe)

\* C30 as claimed: whatever the window's focus, Started for the game's path
\* is eventually dispatched. Every tick may find the window unfocused, and
\* such a tick runs no check.
C30_StartedEventually == <>GameStarted

\* C30 amended: Started for the game's path is eventually dispatched provided
\* that, a timeout being pending again and again, a tick eventually finds no
\* window or finds it focused.
C30_StartedOnceTickChecks == SF_vars(FireChecks) => <>GameStarted

\* A tick that found the window focused has dispatched Started for the game,
\* replacing an entry whose pid is gone, with the pid of a process that is
\* not a child of the monitor.
C30_Witness ==
  /\ GameStarted /\ mWindow = "window" /\ tick.focus = "focused"
  /\ state[makeExeId(join(GamePath, GameExe))] # UndefinedEntry
  /\ toolsRunning[makeExeId(join(GamePath, GameExe))].pid = MaxPid
  /\ processes[1].parentProcessID = 0
  /\ \E t \in timers : t.handle = mTimer /\ t.delay = ShortDelay

----------------------------------------------------------------------------
(* SpecGone: a started monitor that stays active after the game has exited: *)
(* the store may still hold an entry under the game's exeId, every          *)
(* enumeration succeeds and lists no process named like the game; other    *)
(* processes come and go and may reuse the recorded pid. Fairness as in     *)
(* SpecLive.                                                                *)

GameId == makeExeId(join(GamePath, GameExe))

InitGone ==
  /\ mImpl \in {"win32", "linux"}
  /\ \E w \in {"undefined", "window"} : mWindow = w /\ remote = (w = "window")
  /\ mActive = TRUE /\ mTimer = 1
  /\ timers = { [handle |-> 1, delay |-> ShortDelay] }
  /\ config \in TrackConfigs
  /\ toolsRunning \in EarlierStates
  /\ pc = "idle" /\ os = NoAnswer
  /\ processes = << >> /\ state = << >> /\ targets = << >>
  /\ emitted = << >> /\ inspected = << >>
  /\ tick = NoTick
  /\ lastCall = "start"
  /\ walk = WalkIdle

\* A tick of check(): skipped, or a doCheck whose enumeration succeeds and
\* lists no process named like the game.
FireGone ==
  /\ Fire
  /\ pc' = "update" \/ tick'.outcome = "skipped"
  /\ pc' = "update" => byName(processes', GameId) = << >>

\* A tick of check() that runs doCheck after the game has exited.
FireGoneChecks == FireGone /\ pc' = "update"

\* An update call no subscriber reacts to.
UpdateGone == Update("none")

NextGone ==
  \/ FireGone
  \/ UpdateGone
  \/ CheckReturn

SpecGone ==
  /\ InitGone /\ [][NextGone]_vars
  /\ WF_vars(FireGone) /\ WF_vars(UpdateGone) /\ WF_vars(CheckReturn)

\* The paths a target may have under the game's exeId: the game's and those
\* of the tools named like it.
GonePaths ==
  { p \in { u.path : u \in ToolChoices } \cup { join(GamePath, GameExe) } :
      p # Undefined /\ makeExeId(p) = GameId }

\* The running or last check has dispatched Stopped for the path.
StoppedFor(path) == \E i \in 1..Len(emitted) : emitted[i] = setToolStopped(path)

\* The store holds an entry for a process under the exeId of a target's path.
RecordedFor(path) == path \in TargetPaths /\ toolsRunning[makeExeId(path)] # UndefinedEntry

\* The check read a state with no entry under the exeId of the path.
ReadCleared(path) ==
  /\ tick.fired /\ tick.outcome \in {"running", "returned"}
  /\ state[makeExeId(path)] = UndefinedEntry

\* C31 as claimed: once the recorded process of a target path is gone with no
\* same-named process left, Stopped for the path is eventually dispatched,
\* and a check that reads the store after it cleared the entry dispatches no
\* Stopped for the path. Every tick may find the window unfocused and run no
\* check.
C31_StoppedEventually ==
  \A path \in GonePaths :
    /\ RecordedFor(path) ~> StoppedFor(path)
    /\ [](ReadCleared(path) => ~StoppedFor(path))

\* C31 amended: the same, provided that, a timeout being pending again and
\* again, a tick eventually finds no window or finds it focused.
C31_StoppedOnceTickChecks ==
  SF_vars(FireGoneChecks) =>
    \A path \in GonePaths :
      /\ RecordedFor(path) ~> StoppedFor(path)
      /\ [](ReadCleared(path) => ~StoppedFor(path))

\* A finished check that found the recorded pid of the game reused by a
\* process of another name, dispatched Stopped for the game's path, and left
\* the store without an entry under the game's exeId.
C31_Witness ==
  /\ pc = "idle" /\ tick.outcome = "returned"
  /\ state[GameId] # UndefinedEntry
  /\ byPid(processes, state[GameId].pid) # UndefinedProc
  /\ StoppedFor(join(GamePath, GameExe))
  /\ toolsRunning[GameId] = UndefinedEntry
  /\ \E t \in timers : t.handle = mTimer /\ t.delay = ShortDelay

====
